---- MODULE Spec2Model ----
(***************************************************************************)
(* A model of gtk_cleanup.Blacklist: a list of (digest, prefix length)     *)
(* pairs kept sorted by prefix length, queried by prefix matching, and     *)
(* loaded from / saved to a line-oriented text store; and of the scrub     *)
(* pass of gtk_cleanup.RecentManagerScrubber over the recently used items. *)
(*                                                                         *)
(* Strings are sequences of Unicode code points, as Python 3 str values    *)
(* are.  Text in the store is kept as rows of whitespace-separated tokens, *)
(* every token being a sequence of one-character strings.                  *)
(***************************************************************************)
EXTENDS Integers, Sequences, FiniteSets, TLC

\* ------------------------------------------------------------------ bounds
\* Longest prefix handed to add, in code points.
MaxLen == 2
\* add is called only where it leaves at most this many entries.
MaxEntries == 2
\* Most rows of a store written by another program or by hand.
MaxRows == 2
\* Most items the list of recently used files holds.
MaxItems == 2
\* Most items other applications record in a run.
MaxAdds == 2

\* Code points the strings are built from: U+0061 (one UTF-8 byte) and
\* U+00E9 (two UTF-8 bytes).
Alphabet == {97, 233}

RECURSIVE Strings(_)
\* The strings of at most n code points.
Strings(n) ==
    IF n = 0 THEN {<<>>}
    ELSE LET S == Strings(n - 1)
         IN  S \cup {Append(t, a) : t \in S, a \in Alphabet}
\* The strings add, remove and remove_all are called with.
Prefixes == Strings(MaxLen)
\* The URIs index and contains are asked about: one code point longer.
Uris == Strings(MaxLen + 1)

Min(a, b) == IF a <= b THEN a ELSE b
Max(a, b) == IF a >= b THEN a ELSE b
Front(s) == SubSeq(s, 1, Len(s) - 1)
Last(s) == s[Len(s)]

\* ------------------------------------------------------- text conversions
DecDigits == <<"0", "1", "2", "3", "4", "5", "6", "7", "8", "9">>
HexDigits == <<"0", "1", "2", "3", "4", "5", "6", "7", "8", "9",
               "a", "b", "c", "d", "e", "f">>

\* str.encode('utf8') of one code point (one- and two-byte forms).
Utf8Char(cp) ==
    IF cp < 128 THEN <<cp>>
    ELSE <<192 + (cp \div 64), 128 + (cp % 64)>>

RECURSIVE encode(_)
\* str.encode('utf8'): the bytes of a string.
encode(s) == IF s = <<>> THEN <<>> ELSE Utf8Char(s[1]) \o encode(Tail(s))

\* Width of hashlib.sha1(...).hexdigest().
DigestWidth == 40

RECURSIVE HexOf(_)
HexOf(bytes) ==
    IF bytes = <<>> THEN <<>>
    ELSE <<HexDigits[(bytes[1] \div 16) + 1], HexDigits[(bytes[1] % 16) + 1]>>
         \o HexOf(Tail(bytes))

\* hashlib.sha1(bytes).hexdigest(): 40 lowercase hex characters that depend
\* on every byte hashed.  SHA-1 is stood in for by a collision-free digest
\* (the hex form of the bytes, zero-filled to 40 characters).
sha1_hexdigest(bytes) ==
    HexOf(bytes) \o [i \in 1..(DigestWidth - 2 * Len(bytes)) |-> "0"]

\* s[:n] of Python: the first n items, or all but the last -n when n < 0.
PySlice(s, n) ==
    IF n >= 0 THEN SubSeq(s, 1, Min(n, Len(s)))
    ELSE SubSeq(s, 1, Max(Len(s) + n, 0))

RECURSIVE FmtNat(_)
FmtNat(n) ==
    IF n < 10 THEN <<DecDigits[n + 1]>>
    ELSE FmtNat(n \div 10) \o <<DecDigits[(n % 10) + 1]>>

\* '%d' % n
FmtInt(n) == IF n < 0 THEN <<"-">> \o FmtNat(0 - n) ELSE FmtNat(n)

IsDigit(ch) == \E i \in 1..10 : DecDigits[i] = ch
DigitVal(ch) == (CHOOSE i \in 1..10 : DecDigits[i] = ch) - 1
AllDigits(tok) == tok /= <<>> /\ \A i \in 1..Len(tok) : IsDigit(tok[i])

\* Whether int(tok) returns rather than raising ValueError: an optional
\* sign followed by decimal digits.
IsInt(tok) ==
    /\ tok /= <<>>
    /\ IF tok[1] \in {"-", "+"} THEN AllDigits(Tail(tok)) ELSE AllDigits(tok)

RECURSIVE NatOf(_)
NatOf(tok) ==
    IF tok = <<>> THEN 0 ELSE 10 * NatOf(Front(tok)) + DigitVal(Last(tok))

\* int(tok) for a token IsInt accepts.
ParseInt(tok) ==
    IF tok[1] = "-" THEN 0 - NatOf(Tail(tok))
    ELSE IF tok[1] = "+" THEN NatOf(Tail(tok))
    ELSE NatOf(tok)

\* ------------------------------------------------------------ Blacklist
\* The digests of the strings that are ever hashed, worked out once.
sha1_of == [s \in Uris |-> sha1_hexdigest(encode(s))]

\* No limit given to _hash_prefix (limit=None) is <<>>, a limit n is <<n>>.
None == <<>>

\* Blacklist._hash_prefix: (hexdigest, len) of prefix[:limit].
hash_prefix(prefix, limit) ==
    LET cut == IF limit = None THEN prefix ELSE PySlice(prefix, limit[1])
    IN  <<sha1_of[cut], Len(cut)>>

\* The result of index when it raises IndexError; positions count from 0.
IndexError == -1

RECURSIVE index_from_ge(_, _, _)
\* The loop of index with the skip test written >= instead of >.
index_from_ge(c, uri, pos) ==
    IF pos > Len(c) THEN IndexError
    ELSE IF c[pos][2] >= Len(uri) THEN IndexError
    ELSE IF c[pos][1] = hash_prefix(uri, <<c[pos][2]>>)[1] THEN pos - 1
    ELSE index_from_ge(c, uri, pos + 1)

RECURSIVE index_from(_, _, _)
\* The loop of Blacklist.index from list position pos (counting from 1).
index_from(c, uri, pos) ==
    IF pos > Len(c) THEN IndexError
    ELSE IF c[pos][2] > Len(uri) THEN IndexError
    ELSE IF c[pos][1] = hash_prefix(uri, <<c[pos][2]>>)[1] THEN pos - 1
    ELSE index_from(c, uri, pos + 1)

\* Blacklist.index on the list c.
index_of(c, uri) == index_from(c, uri, 1)

\* Blacklist.__contains__ on the list c.
contains_in(c, uri) == index_of(c, uri) /= IndexError

RECURSIVE sort_by_len(_)
\* list.sort(key=lambda x: x[1]): ascending by length, stable.
sort_by_len(s) ==
    IF Len(s) <= 1 THEN s
    ELSE LET x == Last(s)
             r == sort_by_len(Front(s))
             k == Cardinality({i \in 1..Len(r) : r[i][2] <= x[2]})
         IN  SubSeq(r, 1, k) \o <<x>> \o SubSeq(r, k + 1, Len(r))

\* add with the sort left out: the new entry stays at the end.
add_to_unsorted(c, prefix) ==
    IF contains_in(c, prefix) THEN c
    ELSE Append(c, hash_prefix(prefix, None))

\* add that looks for the very pair (digest, length) instead of a match.
add_to_exact(c, prefix) ==
    IF \E i \in 1..Len(c) : c[i] = hash_prefix(prefix, None) THEN c
    ELSE sort_by_len(Append(c, hash_prefix(prefix, None)))

\* add without the membership test.
add_to_always(c, prefix) ==
    sort_by_len(Append(c, hash_prefix(prefix, None)))

\* Blacklist.add on the list c.
add_to(c, prefix) ==
    IF contains_in(c, prefix) THEN c
    ELSE sort_by_len(Append(c, hash_prefix(prefix, None)))

\* list.pop(i), i counting from 0.
Pop(c, i) == SubSeq(c, 1, i) \o SubSeq(c, i + 2, Len(c))

\* remove that looks the entry up and forgets to pop it.
remove_from_keeps(c, uri) ==
    LET i == index_of(c, uri)
    IN  IF i = IndexError THEN [contents |-> c, ret |-> "ValueError", n |-> 0]
        ELSE [contents |-> c, ret |-> "None", n |-> 0]

\* Blacklist.remove on the list c: the list left and what the call raises.
remove_from(c, uri) ==
    LET i == index_of(c, uri)
    IN  IF i = IndexError THEN [contents |-> c, ret |-> "ValueError", n |-> 0]
        ELSE [contents |-> Pop(c, i), ret |-> "None", n |-> 1]

\* remove_all that stops after the first remove.
remove_loop_once(c, uri, n) ==
    LET r == remove_from(c, uri)
    IN  [contents |-> r.contents, ret |-> "None", n |-> r.n]

RECURSIVE remove_loop_raises(_, _, _)
\* remove_all that lets the ValueError of the last remove out.
remove_loop_raises(c, uri, n) ==
    LET r == remove_from(c, uri)
    IN  IF r.ret = "ValueError" THEN [contents |-> c, ret |-> "ValueError", n |-> n]
        ELSE remove_loop_raises(r.contents, uri, n + 1)

RECURSIVE remove_loop(_, _, _)
\* The while loop of Blacklist.remove_all after n successful removes.
remove_loop(c, uri, n) ==
    LET r == remove_from(c, uri)
    IN  IF r.ret = "ValueError" THEN [contents |-> c, ret |-> "None", n |-> n]
        ELSE remove_loop(r.contents, uri, n + 1)

\* Blacklist.remove_all on the list c.
remove_all_from(c, uri) == remove_loop(c, uri, 0)

RECURSIVE JoinTokens(_)
\* The text of tokens that were separated by whitespace.
JoinTokens(toks) ==
    IF Len(toks) = 1 THEN toks[1]
    ELSE toks[1] \o <<" ">> \o JoinTokens(Tail(toks))

\* str.split(None, maxsplit) of a stripped row that holds the tokens toks:
\* at most maxsplit + 1 fields, the last one taking the rest of the row.
split(toks, maxsplit) ==
    IF Len(toks) <= maxsplit + 1 THEN toks
    ELSE SubSeq(toks, 1, maxsplit)
         \o <<JoinTokens(SubSeq(toks, maxsplit + 1, Len(toks)))>>

InSeq(x, s) == \E i \in 1..Len(s) : s[i] = x

RECURSIVE parse_rows(_, _, _)
\* The for loop of Blacklist.load over the rows left to read; ok is FALSE
\* when a row raises ValueError.
parse_rows(rows, seen, results) ==
    IF rows = <<>> THEN [ok |-> TRUE, results |-> results]
    ELSE LET row == rows[1]
         IN  IF row = <<>> \/ row[1][1] = "#"
             THEN parse_rows(Tail(rows), seen, results)
             ELSE LET fields == split(row, 2)
                  IN  IF Len(fields) /= 2
                      THEN [ok |-> FALSE, results |-> results]
                      ELSE IF InSeq(fields[1], seen)
                      THEN parse_rows(Tail(rows), seen, results)
                      ELSE IF ~IsInt(fields[2])
                      THEN [ok |-> FALSE, results |-> results]
                      ELSE LET key == <<fields[1], ParseInt(fields[2])>>
                           IN  parse_rows(Tail(rows),
                                   Append(seen, key[1] \o <<",">> \o FmtInt(key[2])),
                                   Append(results, key))

\* The store named by Blacklist.filename: no file, a path that open()
\* refuses (OSError), or a text file with its rows.
Absent == [state |-> "absent", rows |-> <<>>]
Denied == [state |-> "denied", rows |-> <<>>]
File(rows) == [state |-> "file", rows |-> rows]

\* load with the sort left out: the entries stay in file order.
load_from_unsorted(st, c) ==
    IF st.state = "absent" THEN [ret |-> "False", contents |-> c]
    ELSE IF st.state = "denied" THEN [ret |-> "OSError", contents |-> c]
    ELSE LET p == parse_rows(st.rows, <<>>, <<>>)
         IN  IF p.ok THEN [ret |-> "True", contents |-> p.results]
             ELSE [ret |-> "False", contents |-> c]

\* load that hands over the rows parsed so far when a later row fails.
load_from_partial(st, c) ==
    IF st.state = "absent" THEN [ret |-> "False", contents |-> c]
    ELSE IF st.state = "denied" THEN [ret |-> "OSError", contents |-> c]
    ELSE LET p == parse_rows(st.rows, <<>>, <<>>)
         IN  IF p.ok THEN [ret |-> "True", contents |-> sort_by_len(p.results)]
             ELSE [ret |-> "False", contents |-> sort_by_len(p.results)]

\* load without the os.path.exists test: open() raises for a missing file.
load_from_no_exists(st, c) ==
    IF st.state \in {"absent", "denied"} THEN [ret |-> "OSError", contents |-> c]
    ELSE LET p == parse_rows(st.rows, <<>>, <<>>)
         IN  IF p.ok THEN [ret |-> "True", contents |-> sort_by_len(p.results)]
             ELSE [ret |-> "False", contents |-> c]

\* load that lets the ValueError of a row that does not parse out.
load_from_raises(st, c) ==
    IF st.state = "absent" THEN [ret |-> "False", contents |-> c]
    ELSE IF st.state = "denied" THEN [ret |-> "OSError", contents |-> c]
    ELSE LET p == parse_rows(st.rows, <<>>, <<>>)
         IN  IF p.ok THEN [ret |-> "True", contents |-> sort_by_len(p.results)]
             ELSE [ret |-> "ValueError", contents |-> c]

\* Blacklist.load: what it returns or raises, and the list afterwards.
load_from(st, c) ==
    IF st.state = "absent" THEN [ret |-> "False", contents |-> c]
    ELSE IF st.state = "denied" THEN [ret |-> "OSError", contents |-> c]
    ELSE LET p == parse_rows(st.rows, <<>>, <<>>)
         IN  IF p.ok THEN [ret |-> "True", contents |-> sort_by_len(p.results)]
             ELSE [ret |-> "False", contents |-> c]

RECURSIVE sorted_reverse(_)
\* sorted(c, key=lambda x: x[1], reverse=True): descending by length, stable.
sorted_reverse(s) ==
    IF Len(s) <= 1 THEN s
    ELSE LET x == Last(s)
             r == sorted_reverse(Front(s))
             k == Cardinality({i \in 1..Len(r) : r[i][2] >= x[2]})
         IN  SubSeq(r, 1, k) \o <<x>> \o SubSeq(r, k + 1, Len(r))

\* A row written without the tab between the digest and the length.
format_row_joined(e) == <<e[1] \o FmtInt(e[2])>>

\* '%s\t%d\n' % row
format_row(e) == <<e[1], FmtInt(e[2])>>

\* save that opens the file for appending instead of writing.
save_to_append(st, c) ==
    IF st.state = "denied" THEN [ret |-> "False", store |-> st]
    ELSE LET rows == sorted_reverse(c)
         IN  [ret |-> "True",
              store |-> File(st.rows
                             \o [i \in 1..Len(rows) |-> format_row(rows[i])])]

\* save without the except clause: the error of open() reaches the caller.
save_to_raises(st, c) ==
    IF st.state = "denied" THEN [ret |-> "OSError", store |-> st]
    ELSE LET rows == sorted_reverse(c)
         IN  [ret |-> "True",
              store |-> File([i \in 1..Len(rows) |-> format_row(rows[i])])]

\* Blacklist.save: what it returns, and the store afterwards.
save_to(st, c) ==
    IF st.state = "denied" THEN [ret |-> "False", store |-> st]
    ELSE LET rows == sorted_reverse(c)
         IN  [ret |-> "True",
              store |-> File([i \in 1..Len(rows) |-> format_row(rows[i])])]

\* ------------------------------------------------- RecentManagerScrubber
\* The first loop of scrub: the URIs of the items that are in the blacklist.
found_in(c, its) == {uri \in its : contains_in(c, uri)}

\* scrub that gives up at the first remove_item that raises GLib.Error.
scrub_items_stops(c, its, fails) ==
    IF found_in(c, its) \cap fails = {} THEN its \ found_in(c, its) ELSE its

\* RecentManagerScrubber.scrub on the items its of a Gtk.RecentManager:
\* the items left when remove_item raises GLib.Error for the URIs in fails
\* and removes the item of every other URI it is called with.
scrub_items(c, its, fails) == its \ (found_in(c, its) \ fails)

\* ------------------------------------------------- what the store may hold
Digest(s) == hash_prefix(s, None)[1]

\* Rows another program, an editor or an older version may have written.
RowChoices ==
    { <<Digest(<<97>>), <<"1">>>>,          \* the entry of "a"
      <<Digest(<<97>>), <<"2">>>>,          \* the same digest, another length
      <<Digest(<<97>>), <<"-", "1">>>>,     \* a negative length
      <<<<"#">>>>,                          \* a comment
      <<>>,                                 \* a blank line
      <<Digest(<<97>>)>>,                   \* one field
      <<Digest(<<97>>), <<"1">>, <<"1">>>>, \* three fields
      <<<<"a">>, <<"1", "4">>>>,            \* a digest that is not 40 wide
      <<Digest(<<97>>), <<"a">>>> }         \* a length that is no integer

\* ----------------------------------------------------------------- state
VARIABLES
    contents,   \* Blacklist._contents: a sequence of <<digest, length>>
    store,      \* the file behind Blacklist.filename
    last,       \* the last call: its name, its argument, what it returned
                \* or raised, and how many entries it inserted or popped
    items,      \* the URIs of the items Gtk.RecentManager.get_items() gives
    attached,       \* RecentManagerScrubber.attached
    watched_files,  \* the keys of RecentManagerScrubber.watched_files
    handlers,   \* how many times scrub is connected to the 'changed' signal
    pending,    \* emissions of 'changed' the main loop has yet to deliver
    added       \* how many items other applications have recorded so far

\* The recently used list, its signal and the scrubber that watches it.
recent == <<items, attached, watched_files, handlers, pending, added>>

vars == <<contents, store, last, recent>>

\* manager.props.filename of Gtk.RecentManager.get_default().
manager_fname == "recently-used.xbel"

Call(op, arg, ret, n) == [op |-> op, arg |-> arg, ret |-> ret, n |-> n]

\* Blacklist.__init__, with no recently used item recorded yet.
Init ==
    /\ contents = <<>>
    /\ store = Absent
    /\ last = Call("init", <<>>, "None", 0)
    /\ items = {}
    /\ attached = FALSE
    /\ watched_files = {}
    /\ handlers = 0
    /\ pending = 0
    /\ added = 0

\* add that writes the list to the store right away.
add_autosave(prefix) ==
    /\ contents' = add_to(contents, prefix)
    /\ last' = Call("add", prefix, "None", Len(contents') - Len(contents))
    /\ store' = save_to(store, contents').store
    /\ UNCHANGED recent

add(prefix) ==
    /\ contents' = add_to(contents, prefix)
    /\ last' = Call("add", prefix, "None", Len(contents') - Len(contents))
    /\ UNCHANGED <<store, recent>>

empty ==
    /\ contents' = <<>>
    /\ last' = Call("empty", <<>>, "None", 0)
    /\ UNCHANGED <<store, recent>>

remove(uri) ==
    LET r == remove_from(contents, uri)
    IN  /\ contents' = r.contents
        /\ last' = Call("remove", uri, r.ret, r.n)
        /\ UNCHANGED <<store, recent>>

remove_all(uri) ==
    LET r == remove_all_from(contents, uri)
    IN  /\ contents' = r.contents
        /\ last' = Call("remove_all", uri, r.ret, r.n)
        /\ UNCHANGED <<store, recent>>

load ==
    LET r == load_from(store, contents)
    IN  /\ contents' = r.contents
        /\ last' = Call("load", <<>>, r.ret, 0)
        /\ UNCHANGED <<store, recent>>

save ==
    LET r == save_to(store, contents)
    IN  /\ store' = r.store
        /\ last' = Call("save", <<>>, r.ret, 0)
        /\ UNCHANGED <<contents, recent>>

\* remove_all is entered: last.op says that its while loop is running and
\* last.n counts the removes that have succeeded.
remove_all_call(uri) ==
    /\ last.op /= "remove_all_running"
    /\ last' = Call("remove_all_running", uri, "None", 0)
    /\ UNCHANGED <<contents, store, recent>>

\* One turn of the while loop of remove_all: a remove that pops an entry,
\* or the remove whose ValueError ends the loop and the call.
remove_all_step ==
    /\ last.op = "remove_all_running"
    /\ LET r == remove_from(contents, last.arg)
       IN  /\ contents' = r.contents
           /\ last' = IF r.ret = "ValueError"
                      THEN Call("remove_all_done", last.arg, "None", last.n)
                      ELSE Call("remove_all_running", last.arg, "None",
                                last.n + r.n)
    /\ UNCHANGED <<store, recent>>

\* Another program or an editor appends a row to the store, creating the
\* file when there is none.
external_append(row) ==
    /\ store.state /= "denied"
    /\ Len(store.rows) < MaxRows
    /\ store' = File(Append(store.rows, row))
    /\ last' = Call("external", <<>>, "None", 0)
    /\ UNCHANGED <<contents, recent>>

\* The file is deleted from outside the program.
external_unlink ==
    /\ store' = Absent
    /\ last' = Call("external", <<>>, "None", 0)
    /\ UNCHANGED <<contents, recent>>

\* The path stops being one open() accepts (permissions, a directory).
external_deny ==
    /\ store' = Denied
    /\ last' = Call("external", <<>>, "None", 0)
    /\ UNCHANGED <<contents, recent>>

\* Another application records a recently used file; the manager queues
\* an emission of 'changed'.
recent_add(uri) ==
    /\ uri \notin items
    /\ Cardinality(items) < MaxItems
    /\ added < MaxAdds
    /\ items' = items \cup {uri}
    /\ added' = added + 1
    /\ pending' = pending + 1
    /\ last' = Call("external", <<>>, "None", 0)
    /\ UNCHANGED <<contents, store, attached, watched_files, handlers>>

\* RecentManagerScrubber.scrub; remove_item raises GLib.Error for the URIs
\* in fails, and queues an emission of 'changed' for every item it removes.
scrub(fails) ==
    /\ items' = scrub_items(contents, items, fails)
    /\ pending' = pending + (Cardinality(items) - Cardinality(items'))
    /\ last' = Call("scrub", fails, "None",
                    Cardinality(items) - Cardinality(items'))
    /\ UNCHANGED <<contents, store, attached, watched_files, handlers, added>>

\* attach that connects scrub without looking into watched_files.
attach_manager_unchecked ==
    /\ items' = scrub_items(contents, items, {})
    /\ pending' = pending + (Cardinality(items) - Cardinality(items'))
    /\ handlers' = handlers + 1
    /\ watched_files' = watched_files \cup {manager_fname}

\* The body of RecentManagerScrubber.attach: nothing for a manager that is
\* watched already, else a scrub pass, manager.connect('changed', scrub)
\* and the entry in watched_files.  The pass removes URIs get_items has just
\* given, so none of its remove_item calls fails.
attach_manager ==
    IF manager_fname \in watched_files
    THEN UNCHANGED <<items, pending, handlers, watched_files>>
    ELSE /\ items' = scrub_items(contents, items, {})
         /\ pending' = pending + (Cardinality(items) - Cardinality(items'))
         /\ handlers' = handlers + 1
         /\ watched_files' = watched_files \cup {manager_fname}

\* RecentManagerScrubber.attach
attach ==
    /\ attach_manager
    /\ last' = Call("attach", <<>>, "None",
                    Cardinality(items) - Cardinality(items'))
    /\ UNCHANGED <<contents, store, attached, added>>

\* RecentManagerScrubber.start
start ==
    /\ IF attached
       THEN UNCHANGED <<items, pending, handlers, watched_files, attached>>
       ELSE attach_manager /\ attached' = TRUE
    /\ last' = Call("start", <<>>, "None",
                    Cardinality(items) - Cardinality(items'))
    /\ UNCHANGED <<contents, store, added>>

\* The main loop delivers one emission of 'changed': every connected
\* handler runs a scrub pass, the first of which removes what it finds.
changed ==
    /\ pending > 0
    /\ items' = IF handlers > 0 THEN scrub_items(contents, items, {})
                ELSE items
    /\ pending' = (pending - 1) + (Cardinality(items) - Cardinality(items'))
    /\ last' = Call("changed", <<>>, "None",
                    Cardinality(items) - Cardinality(items'))
    /\ UNCHANGED <<contents, store, attached, watched_files, handlers, added>>

Next ==
    \/ \E p \in Prefixes : Len(add_to(contents, p)) <= MaxEntries /\ add(p)
    \/ empty
    \/ \E u \in Prefixes : remove(u)
    \/ \E u \in Prefixes : remove_all(u)
    \/ load
    \/ save
    \/ \E row \in RowChoices : external_append(row)
    \/ external_unlink
    \/ external_deny

Spec == Init /\ [][Next]_vars

\* The in-memory operations alone: the store is never read or written.
NextMem ==
    \/ \E p \in Prefixes : Len(add_to(contents, p)) <= MaxEntries /\ add(p)
    \/ empty
    \/ \E u \in Prefixes : remove(u)
    \/ \E u \in Prefixes : remove_all(u)

SpecMem == Init /\ [][NextMem]_vars

\* remove_all taken one turn of its loop at a time, between calls of add
\* and remove; a call that has been entered runs on until it returns.
NextLoop ==
    \/ \E p \in Prefixes :
          /\ last.op /= "remove_all_running"
          /\ Len(add_to(contents, p)) <= MaxEntries
          /\ add(p)
    \/ \E u \in Prefixes : last.op /= "remove_all_running" /\ remove(u)
    \/ \E u \in Uris : remove_all_call(u)
    \/ remove_all_step

SpecLoop == Init /\ [][NextLoop]_vars /\ WF_vars(remove_all_step)

\* The blacklist is filled by add and emptied, other applications record
\* items, and the scrubber passes over them.
NextScrub ==
    \/ \E p \in Prefixes : Len(add_to(contents, p)) <= MaxEntries /\ add(p)
    \/ empty
    \/ \E uri \in Uris : recent_add(uri)
    \/ \E fails \in SUBSET found_in(contents, items) : scrub(fails)

SpecScrub == Init /\ [][NextScrub]_vars

\* The resident program: the blacklist is filled before the scrubber is
\* started, start and attach are called any number of times, other
\* applications record items, and the main loop delivers the emissions of
\* 'changed' for as long as there are any.
NextWatch ==
    \/ \E p \in Prefixes :
          /\ handlers = 0
          /\ Len(add_to(contents, p)) <= MaxEntries
          /\ add(p)
    \/ \E uri \in Uris : recent_add(uri)
    \/ start
    \/ attach
    \/ changed

SpecWatch == Init /\ [][NextWatch]_vars /\ WF_vars(changed)

\* ================================================================ claims
\* The matching rule: entry e = <<digest, len>> matches uri iff
\* len <= length(uri) and the hash of uri cut to len is the digest.
Matches(e, uri) ==
    /\ e[2] <= Len(uri)
    /\ hash_prefix(uri, <<e[2]>>)[1] = e[1]

\* The positions (from 1) of the entries of c that match uri.
MatchSet(c, uri) == {i \in 1..Len(c) : Matches(c[i], uri)}

SetMin(S) == CHOOSE x \in S : \A y \in S : x <= y

\* C1: in every reachable state index(uri) is the position of the first
\* entry that matches uri, which has the lowest length among the matching
\* entries, and it raises IndexError exactly when no entry matches: the
\* scan that stops early agrees with a scan of the whole list, and
\* contains(uri) holds iff index(uri) succeeds.
C1_IndexIsFirstMatch ==
    \A uri \in Uris :
        LET m == MatchSet(contents, uri)
        IN  /\ (m = {}) <=> (index_of(contents, uri) = IndexError)
            /\ m /= {} =>
                 /\ index_of(contents, uri) = SetMin(m) - 1
                 /\ \A j \in m : contents[SetMin(m)][2] <= contents[j][2]
            /\ contains_in(contents, uri) <=> (m /= {})

\* A list of two entries of different lengths where one URI is found at
\* the second entry and another stops the scan at the second entry.
C1_Witness ==
    /\ Len(contents) = 2
    /\ contents[1][2] < contents[2][2]
    /\ \E uri \in Uris : index_of(contents, uri) = 1
    /\ \E uri \in Uris :
         /\ contents[1][2] <= Len(uri)
         /\ Len(uri) < contents[2][2]
         /\ index_of(contents, uri) = IndexError

\* C7: in every reachable state the entries are in non-decreasing order of
\* prefix length.
C7_SortedByLength ==
    \A i \in 1..Len(contents) : \A j \in i..Len(contents) :
        contents[i][2] <= contents[j][2]

\* A load has put in ascending order two rows that the store holds
\* longest first.
C7_Witness ==
    /\ last.op = "load"
    /\ last.ret = "True"
    /\ Len(contents) = 2
    /\ contents[1][2] < contents[2][2]
    /\ Len(store.rows) = 2
    /\ store.rows[1] = format_row(contents[2])
    /\ store.rows[2] = format_row(contents[1])

StartsWith(q, p) == Len(q) >= Len(p) /\ SubSeq(q, 1, Len(p)) = p

\* Whether the pair e is an entry of the list c.
Holds(c, e) == \E i \in 1..Len(c) : c[i] = e

\* C2: after add(p), contains(p + s) holds for every suffix s, the empty
\* one included; and when the list was empty before add(p), contains(q) is
\* false for every q shorter than p or not starting with p.
C2_PrefixCovering ==
    [][last'.op = "add" =>
        LET p == last'.arg
        IN  /\ \A s \in Strings(1) : contains_in(contents', p \o s)
            /\ contents = <<>> =>
                 \A q \in Uris :
                     (Len(q) < Len(p) \/ ~StartsWith(q, p))
                         => ~contains_in(contents', q)
      ]_vars

\* C3: after add(p), another add(p) leaves the list (size, members and
\* order) as the first one left it.
C3_AddIdempotent ==
    last.op = "add" => add_to(contents, last.arg) = contents

\* An add that inserted an entry into a list that already held one.
C3_Witness ==
    /\ last.op = "add"
    /\ last.n = 1
    /\ Len(contents) >= 2

\* Whether an entry shorter than p matches p in the list c.
CoveredByShorter(c, p) ==
    \E i \in 1..Len(c) : c[i][2] < Len(p) /\ Matches(c[i], p)

\* C4 as stated: when an entry of a shorter prefix matches p and no entry
\* equals (length(p), hash(p)), add(p) inserts that pair and the list grows
\* by exactly one entry.
C4_AddKeepsCovered ==
    [][(/\ last'.op = "add"
        /\ CoveredByShorter(contents, last'.arg)
        /\ ~Holds(contents, hash_prefix(last'.arg, None)))
       => /\ Len(contents') = Len(contents) + 1
          /\ Holds(contents', hash_prefix(last'.arg, None))
      ]_vars

\* C4 amended: add(p) leaves the list as it is whenever some entry already
\* matches p, also when that entry is one of a shorter prefix and no entry
\* equals (length(p), hash(p)); only when no entry matches p does it insert
\* (hash(p), length(p)), and the list then grows by exactly that entry.
C4_AddSkipsCovered ==
    [][last'.op = "add" =>
        LET p == last'.arg
            e == hash_prefix(p, None)
        IN  IF MatchSet(contents, p) /= {}
            THEN contents' = contents
            ELSE /\ Len(contents') = Len(contents) + 1
                 /\ \E k \in 1..Len(contents') :
                       /\ contents'[k] = e
                       /\ Pop(contents', k - 1) = contents
      ]_vars

\* An add of a prefix that a shorter entry matches: nothing was inserted
\* and no entry equals the pair of that prefix.
C4_Witness ==
    /\ last.op = "add"
    /\ last.n = 0
    /\ CoveredByShorter(contents, last.arg)
    /\ ~Holds(contents, hash_prefix(last.arg, None))

\* The entries of c that do not match uri, in their order.
NonMatching(c, uri) ==
    LET NoMatch(e) == ~Matches(e, uri) IN SelectSeq(c, NoMatch)

\* C5: remove_all(uri) removes all and only the entries that match uri:
\* afterwards contains(uri) is false, and the entries that did not match
\* uri are all still there, in the order they had.
C5_RemoveAllExact ==
    [][last'.op = "remove_all" =>
        /\ contents' = NonMatching(contents, last'.arg)
        /\ ~contains_in(contents', last'.arg)
        /\ last'.n = Len(contents) - Len(contents')
      ]_vars

\* A remove_all that popped an entry and left the entry of an extension of
\* its argument.
C5_Witness ==
    /\ last.op = "remove_all"
    /\ last.n >= 1
    /\ \E x \in Alphabet : Holds(contents, hash_prefix(Append(last.arg, x), None))

\* C6: remove_all(uri) on a list no entry of which matches uri, the empty
\* list included, leaves the list as it is and raises nothing.
C6_RemoveAllNoMatch ==
    [][(last'.op = "remove_all" /\ MatchSet(contents, last'.arg) = {})
       => /\ contents' = contents
          /\ last'.ret = "None"
      ]_vars

\* A remove_all that found nothing to pop in a list that holds entries.
C6_Witness ==
    /\ last.op = "remove_all"
    /\ last.n = 0
    /\ last.ret = "None"
    /\ contents /= <<>>
    /\ MatchSet(contents, last.arg) = {}

\* C8: in every state reached by add, remove, remove_all and empty alone,
\* no two entries have both the same length and the same digest.
C8_NoDuplicates ==
    \A i \in 1..Len(contents) : \A j \in 1..Len(contents) :
        contents[i] = contents[j] => i = j

\* An add of a prefix whose pair is held already, in a list of two entries.
C8_Witness ==
    /\ last.op = "add"
    /\ last.n = 0
    /\ Holds(contents, hash_prefix(last.arg, None))
    /\ Len(contents) = 2

\* Whether a row of the store is a comment or a blank line.
Ignored(row) == row = <<>> \/ row[1][1] = "#"

\* What makes a row malformed: a field count other than two, a digest
\* that is not 40 characters wide, or a length that is no decimal integer.
Malformed(row) ==
    /\ ~Ignored(row)
    /\ IF Len(row) /= 2 THEN TRUE
       ELSE Len(row[1]) /= DigestWidth \/ ~IsInt(row[2])

\* The (digest, length) pair a row with two fields stands for.
PairOf(row) == <<row[1], ParseInt(row[2])>>

\* How many entries of the list c equal the pair e.
Count(c, e) == Cardinality({k \in 1..Len(c) : c[k] = e})

\* C9: loading a store whose rows are all well formed succeeds and leaves
\* exactly one entry for every (digest, length) pair of the store, however
\* often and wherever the pair appears; the same digest with two lengths
\* is two pairs and leaves two entries.
C9_LoadDeduplicates ==
    [][(/\ last'.op = "load"
        /\ store.state = "file"
        /\ \A i \in 1..Len(store.rows) : ~Malformed(store.rows[i]))
       => /\ last'.ret = "True"
          /\ \A i \in 1..Len(store.rows) :
                ~Ignored(store.rows[i])
                    => Count(contents', PairOf(store.rows[i])) = 1
      ]_vars

\* C10: when any row of the store is malformed, load reports failure and
\* every entry of the list afterwards was an entry before: nothing of the
\* file enters the list.
C10_LoadRejectsMalformed ==
    [][(/\ last'.op = "load"
        /\ store.state = "file"
        /\ \E i \in 1..Len(store.rows) : Malformed(store.rows[i]))
       => /\ last'.ret = "False"
          /\ \A k \in 1..Len(contents') : Holds(contents, contents'[k])
      ]_vars

\* Whether a row of the store has the two fields and the integer length
\* that load takes an entry from.
Parses(row) == ~Ignored(row) /\ Len(row) = 2 /\ IsInt(row[2])

\* C11: load is atomic.  When load reports failure (a malformed row at any
\* place, also after well-formed rows), reports not-found or raises, the
\* list is exactly what it was before the call, also when it held entries;
\* when load succeeds, the entries of the list are exactly the pairs of the
\* rows of the store: every entry is the pair of a row, the pair of every
\* well-formed row is an entry, and the entries held before are discarded,
\* not merged.
C11_LoadAtomic ==
    [][last'.op = "load" =>
        IF last'.ret = "True"
        THEN /\ store.state = "file"
             /\ \A i \in 1..Len(store.rows) :
                   (~Ignored(store.rows[i]) /\ ~Malformed(store.rows[i]))
                       => Holds(contents', PairOf(store.rows[i]))
             /\ \A k \in 1..Len(contents') :
                   \E i \in 1..Len(store.rows) :
                       /\ Parses(store.rows[i])
                       /\ PairOf(store.rows[i]) = contents'[k]
        ELSE contents' = contents
      ]_vars

\* A failed load of a store whose first row is well formed and whose second
\* row is not, into a list that holds an entry the store does not name.
C11_Witness ==
    /\ last.op = "load"
    /\ last.ret = "False"
    /\ store.state = "file"
    /\ Len(store.rows) = 2
    /\ Parses(store.rows[1])
    /\ ~Ignored(store.rows[2])
    /\ ~Parses(store.rows[2])
    /\ contents /= <<>>
    /\ ~Holds(contents, PairOf(store.rows[1]))

\* C12: load on a store that does not exist returns False, the not-found
\* signal, and raises nothing.
C12_LoadNotFound ==
    [][(last'.op = "load" /\ store.state = "absent")
       => last'.ret = "False"
      ]_vars

\* A load that found no store, called on a list that holds an entry.
C12_Witness ==
    /\ last.op = "load"
    /\ store.state = "absent"
    /\ last.ret = "False"
    /\ Len(contents) = 1

\* What a call hands back when it returns rather than raising.
Returns == {"None", "True", "False"}

\* C13 as stated: load returns False, raising nothing, for a store that
\* does not exist, and surfaces an error for a store that exists but cannot
\* be read or holds a malformed row, so that a caller can tell the one
\* outcome from the other.
C13_LoadDistinguishes ==
    [][last'.op = "load" =>
        /\ store.state = "absent" => last'.ret = "False"
        /\ (\/ store.state = "denied"
            \/ /\ store.state = "file"
               /\ \E i \in 1..Len(store.rows) : Malformed(store.rows[i]))
           => last'.ret \notin Returns
      ]_vars

\* C13 amended: load tells an absent store only from one that open()
\* refuses.  It returns False, raising nothing, for a store that does not
\* exist and just the same for a store that exists but has a row with a
\* field count other than two, or with a digest of 40 characters and a
\* length that is no integer; the OSError of a store that cannot be opened
\* is raised to the caller.
C13_LoadConflatesCorrupt ==
    [][last'.op = "load" =>
        /\ store.state = "absent" => last'.ret = "False"
        /\ store.state = "denied" => last'.ret = "OSError"
        /\ (/\ store.state = "file"
            /\ \E i \in 1..Len(store.rows) :
                  /\ ~Ignored(store.rows[i])
                  /\ \/ Len(store.rows[i]) /= 2
                     \/ /\ Len(store.rows[i][1]) = DigestWidth
                        /\ ~IsInt(store.rows[i][2]))
           => last'.ret = "False"
      ]_vars

\* A load of a store whose only row has a length that is no integer: it
\* returned False, as it does for a store that does not exist.
C13_Witness ==
    /\ last.op = "load"
    /\ store.state = "file"
    /\ Len(store.rows) = 1
    /\ Len(store.rows[1]) = 2
    /\ Len(store.rows[1][1]) = DigestWidth
    /\ ~IsInt(store.rows[1][2])
    /\ last.ret = "False"
    /\ load_from(Absent, contents).ret = last.ret

\* C14: a successful save followed by load into a fresh list gives a list
\* with the same (digest, length) members as the saved one, so contains and
\* the success of index agree on every URI between the two.  It is checked
\* for every list the program reaches, those built by add and remove_all
\* among them.
C14_RoundTrip ==
    (last.op = "save" /\ last.ret = "True") =>
        LET l == load_from(store, <<>>)
        IN  /\ l.ret = "True"
            /\ \A k \in 1..Len(contents) : Holds(l.contents, contents[k])
            /\ \A k \in 1..Len(l.contents) : Holds(contents, l.contents[k])
            /\ \A uri \in Uris :
                  /\ contains_in(l.contents, uri) <=> contains_in(contents, uri)
                  /\ (index_of(l.contents, uri) = IndexError)
                        <=> (index_of(contents, uri) = IndexError)

\* A save of two entries of different lengths, one of them of a prefix
\* with a character outside ASCII.
C14_Witness ==
    /\ last.op = "save"
    /\ last.ret = "True"
    /\ Len(contents) = 2
    /\ contents[1][2] < contents[2][2]
    /\ \E k \in 1..2 : contents[k] = hash_prefix(<<233>>, None)

\* Whether a row of the store is the line of the entry e.
RowIs(row, e) == Parses(row) /\ PairOf(row) = e

\* C15: a successful save leaves a store that holds exactly one row for
\* every entry of the list and nothing else (no comment, nothing of what
\* the store held before), the rows being in non-increasing order of
\* prefix length.
C15_SaveWritesEntries ==
    [][(last'.op = "save" /\ last'.ret = "True") =>
        /\ store'.state = "file"
        /\ Len(store'.rows) = Len(contents)
        /\ \A i \in 1..Len(store'.rows) :
              \E k \in 1..Len(contents) : RowIs(store'.rows[i], contents[k])
        /\ \A k \in 1..Len(contents) :
              Cardinality({i \in 1..Len(store'.rows) :
                              RowIs(store'.rows[i], contents[k])})
                  = Count(contents, contents[k])
        /\ \A i \in 1..Len(store'.rows) : \A j \in i..Len(store'.rows) :
              ParseInt(store'.rows[i][2]) >= ParseInt(store'.rows[j][2])
      ]_vars

\* A save of two entries of different lengths: the store holds the longer
\* one first.
C15_Witness ==
    /\ last.op = "save"
    /\ last.ret = "True"
    /\ Len(store.rows) = 2
    /\ ParseInt(store.rows[1][2]) > ParseInt(store.rows[2][2])
    /\ Len(contents) = 2

\* C16 as stated: a save that cannot write the store raises an error to
\* the caller instead of returning.
C16_SaveFailureRaises ==
    [][(last'.op = "save" /\ store.state = "denied")
       => last'.ret \notin Returns
      ]_vars

\* C16 amended: a save that cannot write the store raises nothing: it
\* returns False and leaves the store as it was; it returns True exactly
\* when it has written the store.
C16_SaveFailureReturnsFalse ==
    [][last'.op = "save" =>
        IF store.state = "denied"
        THEN last'.ret = "False" /\ store' = store
        ELSE last'.ret = "True" /\ store'.state = "file"
      ]_vars

\* A save of a list that holds an entry to a path open() refuses.
C16_Witness ==
    /\ last.op = "save"
    /\ store.state = "denied"
    /\ last.ret = "False"
    /\ contents /= <<>>

\* C17: the store changes only in a save (or from outside the program):
\* add, remove, remove_all, empty and load leave it as it is, and save
\* leaves the list as it is.
C17_NoAutoFlush ==
    [][/\ last'.op \in {"add", "remove", "remove_all", "empty", "load"}
          => store' = store
       /\ last'.op = "save" => contents' = contents
      ]_vars

\* An add has inserted an entry that the store, a file with a row, does
\* not hold: the list and the store differ.
C17_Witness ==
    /\ last.op = "add"
    /\ last.n = 1
    /\ store.state = "file"
    /\ store.rows /= <<>>
    /\ load_from(store, <<>>).ret = "True"
    /\ ~Holds(load_from(store, <<>>).contents, hash_prefix(last.arg, None))

\* Blacklist._hash_prefix as the claim describes it: the UTF-8 bytes of
\* prefix cut to limit bytes, their digest, and how many bytes were hashed.
ByteHash(prefix, limit) ==
    LET bytes == encode(prefix)
        cut == IF limit = None THEN bytes ELSE PySlice(bytes, limit[1])
    IN  <<sha1_hexdigest(cut), Len(cut)>>

\* C18: hash(prefix, limit) cuts the UTF-8 bytes of prefix, not its code
\* points: for every prefix handed to add and every limit it hashes the
\* first limit bytes and returns the number of bytes hashed, and the length
\* add stores with the digest is that number of bytes.
C18_HashCutsBytes ==
    last.op = "add" =>
        /\ hash_prefix(last.arg, None) = ByteHash(last.arg, None)
        /\ \A limit \in 0..(MaxLen + 1) :
              hash_prefix(last.arg, <<limit>>) = ByteHash(last.arg, <<limit>>)
        /\ last.n = 1 => Holds(contents, ByteHash(last.arg, None))

\* The place of a character of a digest in the order of characters.
HexVal(ch) == CHOOSE i \in 1..16 : HexDigits[i] = ch

RECURSIVE StrLeq(_, _)
\* a <= b for two strings of hexadecimal digits, compared as Python
\* compares strings.
StrLeq(a, b) ==
    IF a = <<>> THEN TRUE
    ELSE IF b = <<>> THEN FALSE
    ELSE IF a[1] = b[1] THEN StrLeq(Tail(a), Tail(b))
    ELSE HexVal(a[1]) < HexVal(b[1])

\* C19: in every reachable state, entries of the same prefix length are in
\* ascending order of digest among themselves, in whatever order they were
\* added or stood in the store.
C19_TiesByDigest ==
    \A i \in 1..Len(contents) : \A j \in i..Len(contents) :
        contents[i][2] = contents[j][2]
            => StrLeq(contents[i][1], contents[j][1])

\* C20: a scrub pass asks for the removal of exactly the items whose URI
\* an entry of the blacklist matches.  An item is gone after the pass iff
\* its URI matched and its removal did not fail, so a failed removal does
\* not stop the others; every item that did not match is still there; when
\* no removal fails no item left matches; the blacklist is unchanged.
C20_ScrubExact ==
    [][last'.op = "scrub" =>
        LET found == {uri \in items : MatchSet(contents, uri) /= {}}
            fails == last'.arg
        IN  /\ contents' = contents
            /\ items' \subseteq items
            /\ \A uri \in items :
                  uri \notin items' <=> (uri \in found /\ uri \notin fails)
            /\ fails = {} =>
                  \A uri \in items' : MatchSet(contents', uri) = {}
      ]_vars

\* A scrub pass in which one removal failed and another one succeeded.
C20_Witness ==
    /\ last.op = "scrub"
    /\ last.arg /= {}
    /\ last.n >= 1
    /\ contents /= <<>>

\* C22: remove_all always terminates.  A remove that succeeds pops exactly
\* one entry, the first that matches, and a remove with no match raises
\* ValueError and leaves the list as it is; every turn of the loop of
\* remove_all but the last one makes the list one entry shorter and counts
\* one deletion, so a call on N entries makes at most N deletions; and a
\* call that has been entered returns.
C22_RemoveAllTerminates ==
    /\ [][/\ last'.op = "remove" =>
               IF MatchSet(contents, last'.arg) = {}
               THEN last'.ret = "ValueError" /\ contents' = contents
               ELSE /\ last'.ret = "None"
                    /\ contents'
                         = Pop(contents, SetMin(MatchSet(contents, last'.arg)) - 1)
          /\ last.op = "remove_all_running" =>
               /\ last'.op \in {"remove_all_running", "remove_all_done"}
               /\ last'.n + Len(contents') = last.n + Len(contents)
               /\ last'.n <= last.n + 1
               /\ last'.op = "remove_all_running" => last'.n = last.n + 1
               /\ last'.op = "remove_all_done" =>
                     MatchSet(contents', last'.arg) = {}
          /\ (last'.op = "remove_all_running" /\ last.op /= "remove_all_running")
               => last'.n = 0
         ]_vars
    /\ (last.op = "remove_all_running") ~> (last.op = "remove_all_done")

\* A remove_all that has returned after it deleted both entries of a list
\* of two.
C22_Witness ==
    /\ last.op = "remove_all_done"
    /\ last.n = 2
    /\ contents = <<>>

\* No item of the list is blacklisted and no emission of 'changed' waits.
Quiescent ==
    /\ pending = 0
    /\ \A uri \in items : MatchSet(contents, uri) = {}

====
